---- MODULE Spec2Model ----
(***************************************************************************)
(* Model of src/app.py: the drilling-operations dashboard.  One upload     *)
(* triggers one synchronous script run:                                    *)
(*   Load (read_csv, to_datetime, set_index)  ->  EvaluateRules (tab2)     *)
(*   ->  Summarise (tab3, generate_summary)  ->  Statistics (tab4)         *)
(*   ->  Classify (tab5)  ->  Export (sidebar CSV and PDF).                *)
(* An uncaught exception ends the run where it is raised.                  *)
(*                                                                         *)
(* Numbers.  Sensor cells are integers, or NaN for a missing cell.         *)
(* Timestamps are minutes after midnight.  Percent changes and rolling     *)
(* means are exact fractions <<n, d>> with n, d >= 0: d > 0 is the finite  *)
(* value n/d, <<n, 0>> with n > 0 is +inf, <<0, 0>> is NaN (IEEE 754:      *)
(* x/0 = inf, 0/0 = NaN).                                                  *)
(*                                                                         *)
(* Library behaviour the script relies on (pandas 1.x / 2.x, the releases  *)
(* that coexist with openai.ChatCompletion):                               *)
(*   - read_csv(usecols=...) raises ValueError naming the absent columns;  *)
(*   - to_datetime(format=...) raises ValueError on a non-matching string; *)
(*   - Series.pct_change() forward-fills missing values first;             *)
(*   - rolling('10min') raises ValueError unless the index is monotonic;   *)
(*     its window at row i holds the rows j <= i less than 10 minutes      *)
(*     away; mean() skips NaN and non-finite entries, min_periods = 1;     *)
(*   - a comparison with NaN is False.                                     *)
(***************************************************************************)
EXTENDS Integers, Sequences, FiniteSets, TLC

VARIABLES
    pc,               \* position of the script run
    upload,           \* the uploaded CSV: [header, date, rows]
    df,               \* the table: sequence of rows (column name -> cell)
    error,            \* uncaught exception that ended the run, <<>> if none
    alerts,           \* list of alert strings (line 96)
    recommendations,  \* list of recommendation strings (line 122)
    summary,          \* narrative shown in tab3, <<>> before it exists
    gptCalls,         \* prompts sent to the chat-completion service
    stats,            \* tab4 statistics table, <<>> before it exists
    mlWarnings,       \* st.warning messages of tab5
    mlAttempts,       \* classifier load/inference attempts
    exports           \* download buttons offered: sequence of [file, data]

vars == <<pc, upload, df, error, alerts, recommendations, summary, gptCalls,
          stats, mlWarnings, mlAttempts, exports>>

-----------------------------------------------------------------------------
(* Bounds *)

MaxRows == 3

-----------------------------------------------------------------------------
(* Columns (lines 67-75) *)

DateCol == "YYYY/MM/DD"
TimeCol == "HH:MM:SS"
ROP == "Rate Of Penetration (ft_per_hr)"
PLC == "PLC ROP (ft_per_hr)"
HL == "Hook Load (klbs)"
SPP == "Standpipe Pressure (psi)"
P1 == "Pump 1 strokes/min (SPM)"
P2 == "Pump 2 strokes/min (SPM)"
LAT == "DAS Vibe Lateral Max (g_force)"
AX == "DAS Vibe Axial Max (g_force)"
ADL == "AutoDriller Limiting (unitless)"
WOB == "DAS Vibe WOB Reduce (percent)"
RPM == "DAS Vibe RPM Reduce (percent)"
TS == "Timestamp"
ROPChange == "ROP_change"
MLFlag == "ML Screen Efficiency Flag"

SensorCols == <<ROP, PLC, HL, SPP, P1, P2, LAT, AX, ADL, WOB, RPM>>

usecols == <<DateCol, TimeCol>> \o SensorCols

Range(s) == {s[i] : i \in DOMAIN s}

\* A missing cell (pandas NaN); never a sensor reading of the model.
NaN == -1

NaNFrac == <<0, 0>>

\* Thresholds of the rule battery.
HookLoadLimit == 60
RopStuckLimit == 1
LateralLimit == 25
WindowMinutes == 10
HalfNum == 1
HalfDen == 2

-----------------------------------------------------------------------------
(* Alert and recommendation strings *)

RopAlert == "Significant ROP fluctuation (>50% in 10 min) detected."
StuckAlert == "High hook load while pumps are off and ROP is near zero. Possible stuck pipe."
LateralAlert == "Excessive lateral vibration detected (>25g)."
AutoDrillerAlert == "AutoDriller limiting detected."
MitigationAlert == "DAS vibration mitigation active."

Recommendations ==
    << "Check mud properties for signs of cuttings buildup or influx.",
       "Consider circulating bottoms-up if ROP drops are persistent.",
       "Inspect for stuck pipe conditions if hook load rises during no-ROP periods.",
       "Tune RPM and WOB if vibration levels exceed 25g.",
       "Monitor shaker screen loading if flow and ROP fluctuate rapidly." >>

-----------------------------------------------------------------------------
(* Loader (lines 77-80) *)

GoodDate == "01/02/2024"
BadDate == "2024/01/02"

\* strptime with '%m/%d/%Y %H:%M:%S': TRUE when the string matches.
DateParses(d) == d = GoodDate

\* Minutes after midnight of an 'HH:MM:SS' string of the model's inputs.
ParseTime(t) ==
    CASE t = "00:00:00" -> 0
      [] t = "00:05:00" -> 5
      [] t = "00:10:00" -> 10

\* Variant: only the two timestamp columns are required.
MissingCols_DateOnly(u) == {c \in {DateCol, TimeCol} : c \notin Range(u.header)}

\* Columns read_csv reports as expected but not found.
MissingCols(u) == {c \in Range(usecols) : c \notin Range(u.header)}

\* df.columns after the loader: read_csv(usecols=...) keeps the selected
\* columns in the order of the file's header, and the two timestamp columns
\* are dropped.
LoadedColumns(u) == SelectSeq(u.header, LAMBDA c : c \in Range(SensorCols))

\* One row of the table after set_index / drop: the index value under TS
\* and the eleven sensor cells.
LoadRow(raw) ==
    [c \in {TS} \cup Range(SensorCols) |->
        IF c = TS THEN ParseTime(raw[TimeCol]) ELSE raw[c]]

LoadTable(u) == [i \in 1..Len(u.rows) |-> LoadRow(u.rows[i])]

Load ==
    /\ pc = "upload"
    /\ IF MissingCols(upload) # {}
       THEN /\ pc' = "load_error"
            /\ error' = <<[type |-> "ValueError", where |-> "read_csv",
                           columns |-> MissingCols(upload)]>>
            /\ df' = df
       ELSE IF ~DateParses(upload.date)
       THEN /\ pc' = "load_error"
            /\ error' = <<[type |-> "ValueError", where |-> "to_datetime",
                           columns |-> {}]>>
            /\ df' = df
       ELSE /\ pc' = "loaded"
            /\ error' = error
            /\ df' = LoadTable(upload)
    /\ UNCHANGED <<upload, alerts, recommendations, summary, gptCalls, stats,
                   mlWarnings, mlAttempts, exports>>

-----------------------------------------------------------------------------
(* Rule battery (tab2, lines 96-130) *)

Abs(x) == IF x < 0 THEN -x ELSE x

\* Series.ffill(): the last present value at or before row i, NaN if none.
RECURSIVE Ffill(_, _)
Ffill(col, i) ==
    IF i = 0 THEN NaN
    ELSE IF col[i] # NaN THEN col[i]
    ELSE Ffill(col, i - 1)

\* Series.pct_change().abs() at row i: |f[i] / f[i-1] - 1| on the filled
\* series f, as the fraction |f[i] - f[i-1]| / |f[i-1]|.
PctChangeAbs(col, i) ==
    IF i = 1 THEN NaNFrac
    ELSE LET cur == Ffill(col, i)
             prev == Ffill(col, i - 1)
         IN  IF cur = NaN \/ prev = NaN THEN NaNFrac
             ELSE <<Abs(cur - prev), Abs(prev)>>

IsFinite(f) == f[2] > 0

\* DatetimeIndex.is_monotonic_increasing / is_monotonic_decreasing
MonotonicIncreasing(ix) == \A i \in 1..(Len(ix) - 1) : ix[i] <= ix[i + 1]
MonotonicDecreasing(ix) == \A i \in 1..(Len(ix) - 1) : ix[i] >= ix[i + 1]

\* rolling('10min') validation of the index.
IndexMonotonic(ix) == MonotonicIncreasing(ix) \/ MonotonicDecreasing(ix)

\* Rows of the window that ends at row i (closed on the right).
InWindow(ix, i, j) == j <= i /\ Abs(ix[i] - ix[j]) < WindowMinutes

Window(ix, i) == {j \in 1..Len(ix) : InWindow(ix, i, j)}

RECURSIVE ProdDen(_, _)
ProdDen(chg, S) ==
    IF S = {} THEN 1
    ELSE LET j == CHOOSE k \in S : TRUE
         IN  chg[j][2] * ProdDen(chg, S \ {j})

RECURSIVE SumOver(_, _, _)
SumOver(chg, S, D) ==
    IF S = {} THEN 0
    ELSE LET j == CHOOSE k \in S : TRUE
         IN  chg[j][1] * (D \div chg[j][2]) + SumOver(chg, S \ {j}, D)

\* rolling('10min').mean() at row i: mean of the finite entries of the
\* window, NaN when there is none.
RollingMean(chg, ix, i) ==
    LET F == {j \in Window(ix, i) : IsFinite(chg[j])}
        D == ProdDen(chg, F)
    IN  IF F = {} THEN NaNFrac
        ELSE <<SumOver(chg, F, D), Cardinality(F) * D>>

\* Series.gt(num/den) on a fraction; False for NaN.
FracGt(f, num, den) == IsFinite(f) /\ f[1] * den > num * f[2]

\* Variant: a missing cell is read as 0 (fillna(0)) before the comparison.
Eq_FillZero(v, c) == (IF v = NaN THEN 0 ELSE v) = c

\* Series.gt / lt / eq on a cell; False for NaN.
Gt(v, c) == v # NaN /\ v > c
Lt(v, c) == v # NaN /\ v < c
Eq(v, c) == v # NaN /\ v = c

Column(t, c) == [i \in 1..Len(t) |-> t[i][c]]

\* Line 98: the table with the derived column appended.
WithRopChange(t) ==
    [i \in 1..Len(t) |->
        [c \in DOMAIN t[i] \cup {ROPChange} |->
            IF c = ROPChange THEN PctChangeAbs(Column(t, ROP), i) ELSE t[i][c]]]

\* Line 99
RopVolatile(t) ==
    \E i \in 1..Len(t) :
        FracGt(RollingMean(Column(t, ROPChange), Column(t, TS), i), HalfNum, HalfDen)

\* Line 102
hl_issue(t) ==
    [i \in 1..Len(t) |->
        /\ Gt(t[i][HL], HookLoadLimit)
        /\ Lt(t[i][ROP], RopStuckLimit)
        /\ Eq(t[i][P1], 0)]

StuckPipe(t) == \E i \in 1..Len(t) : hl_issue(t)[i]

\* Line 106
LateralVibration(t) == \E i \in 1..Len(t) : Gt(t[i][LAT], LateralLimit)

\* Line 109
AutoDrillerLimiting(t) == \E i \in 1..Len(t) : Gt(t[i][ADL], 0)

\* Line 112
MitigationActive(t) ==
    \/ \E i \in 1..Len(t) : Gt(t[i][WOB], 0)
    \/ \E i \in 1..Len(t) : Gt(t[i][RPM], 0)

\* Lines 96-113: the alert list of a table that carries ROP_change.
RuleAlerts(t) ==
    (IF RopVolatile(t) THEN <<RopAlert>> ELSE <<>>)
    \o (IF StuckPipe(t) THEN <<StuckAlert>> ELSE <<>>)
    \o (IF LateralVibration(t) THEN <<LateralAlert>> ELSE <<>>)
    \o (IF AutoDrillerLimiting(t) THEN <<AutoDrillerAlert>> ELSE <<>>)
    \o (IF MitigationActive(t) THEN <<MitigationAlert>> ELSE <<>>)

\* rolling('10min') on line 99 raises on an index that is not monotonic,
\* before any alert is appended or shown.
RollingRaises(t) == ~IndexMonotonic(Column(t, TS))

\* The alerts tab2 shows for a freshly loaded table t: none when line 99
\* raises.
ShownAlerts(t) ==
    IF RollingRaises(t) THEN <<>> ELSE RuleAlerts(WithRopChange(t))

EvaluateRules ==
    /\ pc = "loaded"
    /\ df' = WithRopChange(df)
    /\ alerts' = ShownAlerts(df)
    /\ IF RollingRaises(df)
       THEN /\ pc' = "rule_error"
            /\ error' = <<[type |-> "ValueError", where |-> "rolling",
                           columns |-> {}]>>
            /\ recommendations' = recommendations
       ELSE /\ pc' = "alerts"
            /\ error' = error
            /\ recommendations' = Recommendations
    /\ UNCHANGED <<upload, summary, gptCalls, stats, mlWarnings, mlAttempts,
                   exports>>

-----------------------------------------------------------------------------
(* Narrative (generate_summary, lines 17-39; tab3, lines 132-135) *)

CannedSummary == "No anomalies detected during this session. Operations appear stable."

\* Line 39; the text that follows the warning sign of the f-string.
ErrorPrefix == "Error generating summary: "

CleanReply == "Lateral vibration exceeded limits; tune RPM and WOB."
PaddedReply == "  Lateral vibration exceeded limits; tune RPM and WOB.\n"

\* str.strip() on the replies of the model.
Strip(s) == IF s = PaddedReply THEN CleanReply ELSE s

\* What openai.ChatCompletion.create does with the one request it is sent:
\* it answers with a message, or it raises.
GptOutcomes ==
    { [ok |-> TRUE, text |-> CleanReply],
      [ok |-> TRUE, text |-> PaddedReply],
      [ok |-> FALSE, text |-> "No API key provided."] }

\* ['- ' + a for a in items]
RECURSIVE Bullets(_)
Bullets(items) ==
    IF items = <<>> THEN <<>>
    ELSE <<"- " \o Head(items)>> \o Bullets(Tail(items))

\* Lines 21-29: the prompt, as its lines.
Prompt(a, r) ==
    <<"Based on the following drilling anomalies and expert recommendations, provide a concise summary suitable for rig supervisors and mud engineers:",
      "Alerts:">> \o Bullets(a) \o <<"Recommendations:">> \o Bullets(r)

\* Variant: the canned text is returned when either list is empty.
generate_summary_Or(a, r, outcome) ==
    IF a = <<>> \/ r = <<>>
    THEN [text |-> CannedSummary, calls |-> <<>>]
    ELSE [text |-> IF outcome.ok THEN Strip(outcome.text)
                   ELSE ErrorPrefix \o outcome.text,
          calls |-> <<Prompt(a, r)>>]

\* generate_summary(alerts, recommendations) when the service behaves as
\* `outcome`: the returned text and the requests made.
generate_summary(a, r, outcome) ==
    IF a = <<>> /\ r = <<>>
    THEN [text |-> CannedSummary, calls |-> <<>>]
    ELSE [text |-> IF outcome.ok THEN Strip(outcome.text)
                   ELSE ErrorPrefix \o outcome.text,
          calls |-> <<Prompt(a, r)>>]

Summarise ==
    /\ pc = "alerts"
    /\ \E outcome \in GptOutcomes :
          LET res == generate_summary(alerts, recommendations, outcome)
          IN  /\ summary' = <<res.text>>
              /\ gptCalls' = gptCalls \o res.calls
    /\ pc' = "summary"
    /\ UNCHANGED <<upload, df, error, alerts, recommendations, stats,
                   mlWarnings, mlAttempts, exports>>

-----------------------------------------------------------------------------
(* Statistics (tab4, lines 137-144) *)

Present(col) == {i \in DOMAIN col : col[i] # NaN}

RECURSIVE SumCells(_, _)
SumCells(col, S) ==
    IF S = {} THEN 0
    ELSE LET i == CHOOSE k \in S : TRUE
         IN  col[i] + SumCells(col, S \ {i})

\* One line of describe().T[['mean', 'std', 'min', 'max']] for a sensor
\* column: the mean as the fraction sum/count, min and max (NaN when no
\* cell is present).  std, and the line of the derived ROP_change column,
\* are real-valued and are not carried; the statistics CSV is carried as
\* the table it is written from.
Describe(col) ==
    LET S == Present(col)
    IN  [mean |-> IF S = {} THEN NaNFrac ELSE <<SumCells(col, S), Cardinality(S)>>,
         min |-> IF S = {} THEN NaN
                 ELSE CHOOSE m \in {col[i] : i \in S} : \A i \in S : m <= col[i],
         max |-> IF S = {} THEN NaN
                 ELSE CHOOSE m \in {col[i] : i \in S} : \A i \in S : m >= col[i]]

Statistics ==
    /\ pc = "summary"
    /\ stats' = <<[c \in Range(SensorCols) |-> Describe(Column(df, c))]>>
    /\ exports' = Append(exports, [file |-> "statistical_summary.csv", data |-> stats'])
    /\ pc' = "stats"
    /\ UNCHANGED <<upload, df, error, alerts, recommendations, summary,
                   gptCalls, mlWarnings, mlAttempts>>

-----------------------------------------------------------------------------
(* CSV text (DataFrame.to_csv) *)

\* DatetimeIndex rendering of to_csv: when every timestamp of the exported
\* table is at midnight the index is written as dates only.
DatesOnly(t) == \A i \in 1..Len(t) : t[i][TS] = 0

\* One index cell as to_csv writes it, given whether the whole index is
\* written as dates only.
FormatTime(m, datesOnly) ==
    IF datesOnly THEN "2024-01-02"
    ELSE CASE m = 0 -> "2024-01-02 00:00:00"
           [] m = 5 -> "2024-01-02 00:05:00"
           [] m = 10 -> "2024-01-02 00:10:00"

\* A sensor column is int64 when read_csv found no missing cell in it and
\* float64 otherwise; dropping rows later does not change the dtype.
IsFloatCol(u, c) == \E i \in 1..Len(u.rows) : u.rows[i][c] = NaN

\* A sensor cell: empty for NaN, "2" in an int64 column, "2.0" in a
\* float64 column.
FormatCell(v, isFloat) ==
    IF v = NaN THEN ""
    ELSE IF isFloat THEN ToString(v) \o ".0"
    ELSE ToString(v)

\* repr of a float given as a fraction with at most two decimals.
FormatFrac(f) ==
    IF f = NaNFrac THEN ""
    ELSE IF ~IsFinite(f) THEN "inf"
    ELSE LET dec == ((f[1] % f[2]) * 100) \div f[2]
         IN  ToString(f[1] \div f[2]) \o "." \o ToString(dec \div 10)
             \o (IF dec % 10 = 0 THEN "" ELSE ToString(dec % 10))

FormatAny(u, c, v) ==
    IF c = ROPChange THEN FormatFrac(v)
    ELSE IF c = MLFlag THEN ToString(v)
    ELSE FormatCell(v, IsFloatCol(u, c))

\* to_csv of the columns `cols` of table t: the header line and one line
\* per row, the index first.
ToCsv(u, t, cols) ==
    [header |-> <<TS>> \o cols,
     lines |-> [i \in 1..Len(t) |->
                  <<FormatTime(t[i][TS], DatesOnly(t))>>
                  \o [k \in 1..Len(cols) |-> FormatAny(u, cols[k], t[i][cols[k]])]]]

-----------------------------------------------------------------------------
(* Classifier (tab5, lines 146-176) *)

features == <<PLC, LAT>>

\* DataFrame.dropna(subset=features)
RECURSIVE dropna(_)
dropna(t) ==
    IF t = <<>> THEN <<>>
    ELSE (IF \E k \in 1..Len(features) : Head(t)[features[k]] = NaN
          THEN <<>> ELSE <<Head(t)>>) \o dropna(Tail(t))

\* df['ML Screen Efficiency Flag'] = flags
WithFlags(t, flags) ==
    [i \in 1..Len(t) |->
        [c \in DOMAIN t[i] \cup {MLFlag} |->
            IF c = MLFlag THEN flags[i] ELSE t[i][c]]]

MlWarning == "Could not load or run ML model"

\* The table after the try/except of lines 149-157.  joblib.load raises, or
\* the model loads, rows with a missing feature are dropped, and
\* model.predict either raises or returns `flags`.
ClassifyTable(t, outcome, flags) ==
    IF outcome = "load_fails" THEN WithFlags(t, [i \in 1..Len(t) |-> 0])
    ELSE IF outcome = "predict_fails"
    THEN WithFlags(dropna(t), [i \in 1..Len(dropna(t)) |-> 0])
    ELSE WithFlags(dropna(t), flags)

MlOutcomes == {"load_fails", "predict_fails", "ok"}

Classify ==
    /\ pc = "stats"
    /\ \E outcome \in MlOutcomes :
       \E flags \in [1..Len(dropna(df)) -> {0, 1}] :
          /\ outcome # "ok" => \A i \in DOMAIN flags : flags[i] = 0
          /\ df' = ClassifyTable(df, outcome, flags)
          /\ mlWarnings' = IF outcome = "ok" THEN mlWarnings
                           ELSE Append(mlWarnings, MlWarning)
    /\ mlAttempts' = mlAttempts + 1
    /\ exports' = Append(exports,
                         [file |-> "ml_screen_efficiency_flags.csv",
                          data |-> ToCsv(upload, df', <<PLC, LAT, MLFlag>>)])
    /\ pc' = "ml"
    /\ UNCHANGED <<upload, error, alerts, recommendations, summary, gptCalls,
                   stats>>

-----------------------------------------------------------------------------
(* Export (sidebar, lines 178-185) *)

\* generate_pdf_report: the text lines of the document (PyFPDF 1.x, whose
\* output(dest='S') is a str; the alert and recommendation texts are
\* latin-1).
generate_pdf_report(a, r) ==
    <<"Drilling Operations Alert Summary", "Alerts">> \o Bullets(a)
    \o <<"Recommendations">> \o Bullets(r)

\* df.columns at the export: the loaded columns in file order, then the
\* two columns the run assigned (lines 98 and 154/157).
CleanedColumns(u) == LoadedColumns(u) \o <<ROPChange, MLFlag>>

Export ==
    /\ pc = "ml"
    /\ exports' =
          Append(exports, [file |-> "processed_data.csv",
                           data |-> ToCsv(upload, df, CleanedColumns(upload))])
          \o (IF alerts # <<>>
              THEN <<[file |-> "drilling_alerts_summary.pdf",
                      data |-> generate_pdf_report(alerts, recommendations)]>>
              ELSE <<>>)
    /\ pc' = "done"
    /\ UNCHANGED <<upload, df, error, alerts, recommendations, summary,
                   gptCalls, stats, mlWarnings, mlAttempts>>

-----------------------------------------------------------------------------
(* Inputs *)

Nominal ==
    [c \in Range(SensorCols) |->
        CASE c = ROP -> 2
          [] c = PLC -> 2
          [] c = HL -> 50
          [] c = SPP -> 1000
          [] c = P1 -> 60
          [] c = P2 -> 60
          [] c = LAT -> 10
          [] c = AX -> 1
          [] OTHER -> 0]

AllMissingRow == [c \in Range(SensorCols) |-> NaN]

RuleKinds ==
    { Nominal,
      [Nominal EXCEPT ![LAT] = 30],
      [Nominal EXCEPT ![LAT] = 5],
      [Nominal EXCEPT ![HL] = 70, ![ROP] = 0, ![P1] = 0],
      [Nominal EXCEPT ![HL] = 70],
      [Nominal EXCEPT ![ROP] = 0],
      [Nominal EXCEPT ![P1] = 0],
      [Nominal EXCEPT ![HL] = NaN, ![ROP] = 0, ![P1] = 0],
      [Nominal EXCEPT ![HL] = 70, ![ROP] = 0, ![P1] = NaN],
      [Nominal EXCEPT ![ADL] = 1],
      [Nominal EXCEPT ![WOB] = NaN, ![RPM] = 5],
      [Nominal EXCEPT ![WOB] = 5, ![RPM] = NaN],
      AllMissingRow }

RopKinds ==
    { [Nominal EXCEPT ![ROP] = v] : v \in {0, 1, 2, 4, NaN} }

PipelineKinds ==
    { Nominal,
      [Nominal EXCEPT ![LAT] = 30],
      [Nominal EXCEPT ![PLC] = NaN],
      [Nominal EXCEPT ![LAT] = NaN, ![ROP] = 4] }

AllTimes == {"00:00:00", "00:05:00", "00:10:00"}
TwoTimes == {"00:00:00", "00:05:00"}

\* A CSV line: the two timestamp cells and the eleven sensor cells.
RawRow(kind, time) ==
    [c \in Range(usecols) |->
        IF c = DateCol THEN GoodDate
        ELSE IF c = TimeCol THEN time
        ELSE kind[c]]

RawRows(kinds, times) == {RawRow(k, t) : k \in kinds, t \in times}

SeqsUpTo(S, n) == UNION {[1..k -> S] : k \in 1..n}

\* A header that lists the hook load before the two ROP columns.
HookLoadFirst ==
    <<DateCol, TimeCol, HL, ROP, PLC, SPP, P1, P2, LAT, AX, ADL, WOB, RPM>>

\* A header with the timestamp columns last and the sensors reversed.
Reversed ==
    <<RPM, WOB, ADL, AX, LAT, P2, P1, SPP, HL, PLC, ROP, TimeCol, DateCol>>

OneHeader == {usecols}
Headers == {usecols, HookLoadFirst, Reversed}

GoodUploads(kinds, times, headers) ==
    {[header |-> h, date |-> GoodDate, rows |-> r] :
        h \in headers, r \in SeqsUpTo(RawRows(kinds, times), MaxRows)}

\* Uploads the loader rejects: a required column absent, or dates written
\* in another format.
BadUploads ==
    {[header |-> SelectSeq(usecols, LAMBDA c : c \notin m), date |-> d,
      rows |-> <<RawRow(Nominal, "00:00:00")>>] :
        m \in {{HL}, {ROP, LAT}, {DateCol}}, d \in {GoodDate, BadDate}}
    \cup {[header |-> h, date |-> BadDate, rows |-> <<RawRow(Nominal, "00:00:00")>>] :
             h \in Headers}

InitWith(uploads) ==
    /\ pc = "upload"
    /\ upload \in uploads
    /\ df = <<>>
    /\ error = <<>>
    /\ alerts = <<>>
    /\ recommendations = <<>>
    /\ summary = <<>>
    /\ gptCalls = <<>>
    /\ stats = <<>>
    /\ mlWarnings = <<>>
    /\ mlAttempts = 0
    /\ exports = <<>>

InitRules == InitWith(GoodUploads(RuleKinds, TwoTimes, OneHeader) \cup BadUploads)

InitRop == InitWith(GoodUploads(RopKinds, AllTimes, OneHeader) \cup BadUploads)

Init == InitWith(GoodUploads(PipelineKinds, TwoTimes, Headers) \cup BadUploads)

NextRules == Load \/ EvaluateRules

Next == Load \/ EvaluateRules \/ Summarise \/ Statistics \/ Classify \/ Export

Spec == Init /\ [][Next]_vars

\* The script runs to its end once started: every step that can run does.
FairSpec == Init /\ [][Next]_vars /\ WF_vars(Next)

SpecRules == InitRules /\ [][NextRules]_vars

SpecRop == InitRop /\ [][NextRules]_vars

\* generate_summary on its own: any alert list, any recommendation list.
AlertLists ==
    {RuleAlerts(WithRopChange(LoadTable(u))) : u \in GoodUploads(RuleKinds, {"00:00:00"}, OneHeader)}

RECURSIVE Prefixes(_)
Prefixes(s) == IF s = <<>> THEN {<<>>} ELSE {s} \cup Prefixes(SubSeq(s, 1, Len(s) - 1))

InitSummary ==
    /\ pc = "alerts"
    /\ alerts \in AlertLists
    /\ recommendations \in Prefixes(Recommendations)
    /\ upload = [header |-> usecols, date |-> GoodDate, rows |-> <<>>]
    /\ df = <<>>
    /\ error = <<>>
    /\ summary = <<>>
    /\ gptCalls = <<>>
    /\ stats = <<>>
    /\ mlWarnings = <<>>
    /\ mlAttempts = 0
    /\ exports = <<>>

SpecSummary == InitSummary /\ [][Summarise]_vars

-----------------------------------------------------------------------------
(* The upload as the properties below read it *)

NRows == Len(upload.rows)
Cell(i, c) == upload.rows[i][c]
Has(i, c) == Cell(i, c) # NaN
TimeOf(i) == ParseTime(upload.rows[i][TimeCol])
Shown(a) == a \in Range(alerts)

\* The timestamps never go back, or never go forward.
Ordered ==
    \/ \A i, j \in 1..NRows : i < j => TimeOf(i) <= TimeOf(j)
    \/ \A i, j \in 1..NRows : i < j => TimeOf(i) >= TimeOf(j)

\* Last penetration rate observed at or before row i (NaN if none).
LastRop(i) ==
    LET P == {k \in 1..i : Has(k, ROP)}
    IN  IF P = {} THEN NaN
        ELSE Cell(CHOOSE k \in P : \A m \in P : m <= k, ROP)

\* Row i has a finite percent change: a rate was observed before it, and
\* the previous one is not zero.
HasChange(i) == i > 1 /\ LastRop(i - 1) # NaN /\ LastRop(i - 1) # 0

\* Sum over S of (2 * change - 1), as a fraction <<a, b>> with b > 0.
RECURSIVE ExcessOverHalf(_)
ExcessOverHalf(S) ==
    IF S = {} THEN <<0, 1>>
    ELSE LET j == CHOOSE k \in S : TRUE
             n == Abs(LastRop(j) - LastRop(j - 1))
             d == Abs(LastRop(j - 1))
             r == ExcessOverHalf(S \ {j})
         IN  <<r[1] * d + (2 * n - d) * r[2], r[2] * d>>

\* The mean of the finite changes among the rows up to row i that are less
\* than 10 minutes from it is above one half.
MeanAboveHalf(i) ==
    LET S == {j \in 1..i : HasChange(j) /\ Abs(TimeOf(i) - TimeOf(j)) < 10}
    IN  S # {} /\ ExcessOverHalf(S)[1] > 0

RopFluctuates == \E i \in 1..NRows : MeanAboveHalf(i)

StuckRow(i) ==
    /\ Has(i, HL) /\ Cell(i, HL) > 60
    /\ Has(i, ROP) /\ Cell(i, ROP) < 1
    /\ Has(i, P1) /\ Cell(i, P1) = 0

SomeStuckRow == \E i \in 1..NRows : StuckRow(i)
SomeLateral == \E i \in 1..NRows : Has(i, LAT) /\ Cell(i, LAT) > 25
SomeLimiting == \E i \in 1..NRows : Has(i, ADL) /\ Cell(i, ADL) > 0
SomeMitigation ==
    \E i \in 1..NRows : \/ Has(i, WOB) /\ Cell(i, WOB) > 0
                        \/ Has(i, RPM) /\ Cell(i, RPM) > 0

ExpectedAlerts ==
    (IF RopFluctuates THEN <<RopAlert>> ELSE <<>>)
    \o (IF SomeStuckRow THEN <<StuckAlert>> ELSE <<>>)
    \o (IF SomeLateral THEN <<LateralAlert>> ELSE <<>>)
    \o (IF SomeLimiting THEN <<AutoDrillerAlert>> ELSE <<>>)
    \o (IF SomeMitigation THEN <<MitigationAlert>> ELSE <<>>)

Evaluated == pc \in {"alerts", "rule_error"}

-----------------------------------------------------------------------------
(* C1 *)

\* The percent change at row i is defined: a rate was observed before it,
\* and the two rates compared are not both zero.  A missing sample carries
\* the last observed rate.
ChangeDefined(i) ==
    i > 1 /\ LastRop(i - 1) # NaN /\ ~(LastRop(i - 1) = 0 /\ LastRop(i) = 0)

\* The rate rises from zero: the percent change is unbounded.
ChangeInfinite(i) == ChangeDefined(i) /\ LastRop(i - 1) = 0

\* The mean of the changes among the rows up to row i that are less than
\* 10 minutes from it is above one half; an unbounded change makes it so.
RollingMeanAboveHalf(i) ==
    LET S == {j \in 1..i : ChangeDefined(j) /\ Abs(TimeOf(i) - TimeOf(j)) < 10}
        F == {j \in S : ~ChangeInfinite(j)}
    IN  S # {} /\ (S # F \/ ExcessOverHalf(F)[1] > 0)

RollingMeanExceeds == \E i \in 1..NRows : RollingMeanAboveHalf(i)

\* C1: for every loaded series, once the rule evaluator has run, the alert
\* list holds the ROP-volatility alert exactly when, at some row, the
\* 10-minute rolling mean of the absolute percent change of the
\* penetration rate between consecutive samples is above 0.5.
C1_RopAlertIffRollingMean ==
    Evaluated => (Shown(RopAlert) <=> RollingMeanExceeds)

\* The same statement on the runs in which the evaluator did not raise and
\* the rate never rises from zero.
RopAlertIffRollingMeanFiniteListed ==
    (pc = "alerts" /\ ~\E i \in 1..NRows : ChangeInfinite(i))
        => (Shown(RopAlert) <=> RollingMeanExceeds)

\* What the evaluator lists when it does not raise: the alert is shown
\* exactly when the mean of the finite changes of a window is above 0.5,
\* the changes from a zero rate being left out of the mean.
RopAlertIffFiniteMeanWhenListed ==
    pc = "alerts" => (Shown(RopAlert) <=> RopFluctuates)

\* The rate rises from 0 to 4 within five minutes on ordered timestamps and
\* no alert is listed.
RiseFromZeroUnlisted ==
    /\ pc = "alerts"
    /\ NRows = 2
    /\ TimeOf(1) = 0 /\ TimeOf(2) = 5
    /\ Cell(1, ROP) = 0 /\ Cell(2, ROP) = 4
    /\ alerts = <<>>

\* A change of 100% that is alone in its window raises the alert although
\* an older, unchanged sample lies exactly 10 minutes back.
LoneChangeListed ==
    /\ pc = "alerts"
    /\ NRows = 3
    /\ Shown(RopAlert)
    /\ TimeOf(1) = 0 /\ TimeOf(2) = 0 /\ TimeOf(3) = 10
    /\ Cell(1, ROP) = 2 /\ Cell(2, ROP) = 2 /\ Cell(3, ROP) = 4

-----------------------------------------------------------------------------
(* C2 *)

\* C2: for every loaded series, once the rule evaluator has run, the
\* stuck-pipe alert is in the alert list exactly when one single row has
\* hook load > 60, rate of penetration < 1 and pump 1 strokes/min = 0,
\* whatever the other rows and columns hold.
C2_StuckPipeIffSomeRow ==
    Evaluated => (Shown(StuckAlert) <=> SomeStuckRow)

\* The same statement on the runs in which the evaluator did not raise.
StuckPipeIffSomeRowWhenListed ==
    pc = "alerts" => (Shown(StuckAlert) <=> SomeStuckRow)

-----------------------------------------------------------------------------
(* C3 *)

\* C3: after one evaluation run over any series the alert list holds, in
\* the fixed order, exactly the strings of the rules whose predicate holds
\* on some row, each once.
C3_AlertListExact ==
    Evaluated => alerts = ExpectedAlerts

\* The same statement on the runs in which the evaluator did not raise.
AlertListExactWhenListed ==
    pc = "alerts" => alerts = ExpectedAlerts

\* The scenario of the specification: lateral vibration 10, 30, 5 on
\* otherwise nominal rows gives the lateral-vibration alert alone.
LateralScenario ==
    /\ NRows = 3
    /\ Cell(1, LAT) = 10 /\ Cell(2, LAT) = 30 /\ Cell(3, LAT) = 5
    /\ \A i \in 1..3 : \A c \in Range(SensorCols) \ {LAT} : Cell(i, c) = Nominal[c]

LateralScenarioWhenListed ==
    (pc = "alerts" /\ LateralScenario) => alerts = <<LateralAlert>>

-----------------------------------------------------------------------------
(* C10 *)

Permuted(u, p) == [u EXCEPT !.rows = [i \in 1..Len(u.rows) |-> u.rows[p[i]]]]

OrderFreeAlerts == {StuckAlert, LateralAlert, AutoDrillerAlert, MitigationAlert}

\* C10: for any series and any permutation of its rows, the stuck-pipe,
\* lateral-vibration, AutoDriller-limiting and vibration-mitigation alerts
\* are shown for the permuted series exactly when they are shown for the
\* original one.
C10_RowOrderIndependent ==
    Evaluated =>
        \A p \in Permutations(1..NRows) :
            Range(ShownAlerts(LoadTable(Permuted(upload, p)))) \cap OrderFreeAlerts
                = Range(alerts) \cap OrderFreeAlerts

\* The same statement over the orders in which the evaluator does not raise.
RowOrderIndependentWhenListed ==
    pc = "alerts" =>
        \A p \in Permutations(1..NRows) :
            ~RollingRaises(LoadTable(Permuted(upload, p))) =>
                Range(ShownAlerts(LoadTable(Permuted(upload, p)))) \cap OrderFreeAlerts
                    = Range(alerts) \cap OrderFreeAlerts

-----------------------------------------------------------------------------
(* C4 *)

RejectedUpload ==
    \/ Range(usecols) \ Range(upload.header) # {}
    \/ upload.date # GoodDate

NothingProduced ==
    /\ df = <<>> /\ alerts = <<>> /\ recommendations = <<>>
    /\ summary = <<>> /\ gptCalls = <<>> /\ stats = <<>>
    /\ mlAttempts = 0 /\ exports = <<>>

\* C4: an upload that lacks a required column, or whose dates do not parse,
\* ends in a load error that names the absent columns; no rule runs and no
\* alert list, narrative or export is produced for it.
C4_LoadErrorHaltsRun ==
    RejectedUpload =>
        /\ pc \in {"upload", "load_error"}
        /\ NothingProduced
        /\ pc = "load_error" =>
              /\ Len(error) = 1
              /\ error[1].columns = Range(usecols) \ Range(upload.header)

C4_Witness ==
    /\ pc = "load_error"
    /\ HL \notin Range(upload.header)
    /\ error[1].columns = {HL}

-----------------------------------------------------------------------------
(* C5 *)

AllMissing(c) == \A i \in 1..NRows : ~Has(i, c)

\* Rows that satisfy a rule with every cell the rule reads present.
SomeMitigationBothPresent ==
    \E i \in 1..NRows :
        /\ Has(i, WOB) /\ Has(i, RPM)
        /\ (Cell(i, WOB) > 0 \/ Cell(i, RPM) > 0)

\* C5 as stated: missing values never raise; a row with a missing input
\* cell of a rule does not match that rule; a rule yields no alert when a
\* column it reads is missing in every row, the other rules being evaluated
\* as usual.
C5_MissingNeverMatches ==
    /\ pc = "rule_error" => ~Ordered
    /\ pc = "alerts" =>
          /\ Shown(StuckAlert) => SomeStuckRow
          /\ Shown(LateralAlert) => SomeLateral
          /\ Shown(AutoDrillerAlert) => SomeLimiting
          /\ Shown(MitigationAlert) => SomeMitigationBothPresent
          /\ AllMissing(ROP) => ~Shown(RopAlert) /\ ~Shown(StuckAlert)
          /\ AllMissing(HL) => ~Shown(StuckAlert)
          /\ AllMissing(P1) => ~Shown(StuckAlert)
          /\ AllMissing(LAT) => ~Shown(LateralAlert)
          /\ AllMissing(ADL) => ~Shown(AutoDrillerAlert)
          /\ AllMissing(WOB) => ~Shown(MitigationAlert)
          /\ AllMissing(RPM) => ~Shown(MitigationAlert)

\* C5 amended: the evaluator raises only on an unordered index, whatever
\* the cells hold; when it lists its alerts, a missing cell never satisfies
\* a comparison, so an alert is listed only if some row satisfies the rule
\* through present cells (for the vibration-mitigation rule one present
\* cell > 0 is enough, the other may be missing); a rule yields no alert
\* when a column it needs is missing in every row (the mitigation rule:
\* when both its columns are), and the list is then still the exact list of
\* the rules that hold.
C5_MissingCellNeverSatisfies ==
    /\ pc = "rule_error" => ~Ordered
    /\ pc = "alerts" =>
          /\ Shown(StuckAlert) => SomeStuckRow
          /\ Shown(LateralAlert) => SomeLateral
          /\ Shown(AutoDrillerAlert) => SomeLimiting
          /\ Shown(MitigationAlert) => SomeMitigation
          /\ AllMissing(ROP) => ~Shown(RopAlert) /\ ~Shown(StuckAlert)
          /\ AllMissing(HL) => ~Shown(StuckAlert)
          /\ AllMissing(P1) => ~Shown(StuckAlert)
          /\ AllMissing(LAT) => ~Shown(LateralAlert)
          /\ AllMissing(ADL) => ~Shown(AutoDrillerAlert)
          /\ (AllMissing(WOB) /\ AllMissing(RPM)) => ~Shown(MitigationAlert)
          /\ (\E c \in Range(SensorCols) : AllMissing(c)) => alerts = ExpectedAlerts

\* The WOB-reduction column is missing in every row, one row has every
\* sensor missing, another has an RPM reduction above 0: the mitigation
\* alert alone is listed.
C5_Witness ==
    /\ pc = "alerts"
    /\ AllMissing(WOB)
    /\ \E i \in 1..NRows : \A c \in Range(SensorCols) : ~Has(i, c)
    /\ \E i \in 1..NRows : Has(i, RPM) /\ Cell(i, RPM) > 0
    /\ alerts = <<MitigationAlert>>

-----------------------------------------------------------------------------
(* C6 *)

ClassifierFailed == pc = "stats" /\ pc' = "ml" /\ Len(mlWarnings') > Len(mlWarnings)

\* C6: when loading the classifier or running it fails, the classifier
\* step leaves every row flagged 0, shows one warning after one attempt,
\* and leaves the rows and every other column of the table as they were.
C6_FailureLeavesTableIntact ==
    [][ClassifierFailed =>
          /\ \A i \in 1..Len(df') : df'[i][MLFlag] = 0
          /\ Len(mlWarnings') = Len(mlWarnings) + 1
          /\ mlAttempts' = mlAttempts + 1
          /\ Len(df') = Len(df)
          /\ \A i \in 1..Len(df) : \A c \in DOMAIN df[i] : df'[i][c] = df[i][c]]_vars

\* The same statement without the last two conjuncts.
FailureFlagsZeroOnce ==
    [][ClassifierFailed =>
          /\ \A i \in 1..Len(df') : df'[i][MLFlag] = 0
          /\ Len(mlWarnings') = Len(mlWarnings) + 1
          /\ mlAttempts' = mlAttempts + 1]_vars

-----------------------------------------------------------------------------
(* C7 *)

ReadingValues ==
    UNION {{k[c] : c \in Range(SensorCols)} : k \in RuleKinds \cup RopKinds \cup PipelineKinds}
        \ {NaN}

\* Reading a cell of CSV text back.
ReadCell(txt) ==
    IF txt = "" THEN NaN
    ELSE CHOOSE v \in ReadingValues : txt = ToString(v) \/ txt = ToString(v) \o ".0"

\* Reading an index cell back: a date alone is midnight of that date.
ReadStamp(txt) ==
    IF txt = "2024-01-02" THEN 0
    ELSE CHOOSE m \in {0, 5, 10} : FormatTime(m, FALSE) = txt

CleanedCsv == (SelectSeq(exports, LAMBDA e : e.file = "processed_data.csv"))[1].data

Position(header, c) == CHOOSE k \in 1..Len(header) : header[k] = c

\* C7: the cleaned CSV exported at the end of the run, read back without
\* its derived columns, has the rows of the loaded table in the same order
\* with the same value in each sensor column.
C7_CleanedCsvRoundTrip ==
    pc = "done" =>
        LET csv == CleanedCsv
        IN  /\ Len(csv.lines) = NRows
            /\ \A i \in 1..NRows :
                  /\ ReadStamp(csv.lines[i][1]) = TimeOf(i)
                  /\ \A c \in Range(SensorCols) :
                        ReadCell(csv.lines[i][Position(csv.header, c)]) = Cell(i, c)

\* The same statement on the runs whose table has no missing classifier
\* feature.
CleanedCsvRoundTripNoMissingFeature ==
    (pc = "done" /\ \A i \in 1..NRows : Has(i, PLC) /\ Has(i, LAT))
        => C7_CleanedCsvRoundTrip

-----------------------------------------------------------------------------
(* C8 *)

\* C8: generate_summary returns the canned text and calls the service not
\* at all when both lists are empty; otherwise it calls the service exactly
\* once.
C8_CannedIffBothEmpty ==
    pc = "summary" =>
        IF alerts = <<>> /\ recommendations = <<>>
        THEN summary = <<CannedSummary>> /\ gptCalls = <<>>
        ELSE Len(gptCalls) = 1

C8_Witness ==
    /\ pc = "summary"
    /\ alerts = <<>> /\ recommendations = <<>>
    /\ summary = <<CannedSummary>>

\* A call is made for an empty alert list when there are recommendations.
C8_WitnessCall ==
    /\ pc = "summary"
    /\ alerts = <<>> /\ recommendations # <<>>
    /\ Len(gptCalls) = 1

-----------------------------------------------------------------------------
(* C9 *)

CleanedExported == \E k \in 1..Len(exports) : exports[k].file = "processed_data.csv"

\* C9: every upload that loads goes on to the cleaned-CSV export, whatever
\* the text-generation service and the classifier do; the narrative is the
\* service's reply or an inline error text.
C9_LoadedRunReachesExport ==
    /\ [](pc = "loaded" => <>CleanedExported)
    /\ [](summary # <<>> =>
            summary[1] \in {CleanReply, ErrorPrefix \o "No API key provided."})

\* The same statement from the point where the alerts are listed.
ListedRunReachesExport ==
    /\ [](pc = "alerts" => <>CleanedExported)
    /\ [](summary # <<>> =>
            summary[1] \in {CleanReply, ErrorPrefix \o "No API key provided."})

====
